---- MODULE Spec2Model ----
(***************************************************************************)
(* A model of latex.go: the text-to-LaTeX conversion engine                *)
(* (LaTeXConverter) and the control flow of main around it.                *)
(*                                                                         *)
(* A Go string is modelled as a sequence of runes.  A rune is a one-token  *)
(* string: an ASCII rune is itself ("a", "\\", "\n"), any other rune is    *)
(* named by its code point ("U+222B").                                     *)
(*                                                                         *)
(* Go leaves the iteration order of a map unspecified.  The two loops that *)
(* range over a map (escapeSpecialChars, processMathExpressions) are       *)
(* therefore modelled as visiting the keys in any order: the operator of   *)
(* such a function yields the SET of the results the function can return.  *)
(***************************************************************************)
EXTENDS Integers, Sequences, FiniteSets, TLC

VARIABLES
  pc,            \* the control point of the running program
  osArgs,        \* os.Args[1:]
  imageStat,     \* what os.Stat answers for the image path
  language,      \* main's language
  tesseractPath, \* OCRProcessor.tesseractPath
  ocrCalls,      \* how often the tesseract command was run
  simpleCalls,   \* how often SimpleTextExtractor.ExtractText was called
  err,           \* main's err
  text,          \* the text handed to the function under study
  iterations,    \* ConvertToLatex: the locals of each loop iteration that emitted
  latexCode,     \* the string ConvertToLatex returned
  secondCode,    \* the string a second call of ConvertToLatex returned
  files          \* the files written: name -> content

vars == <<pc, osArgs, imageStat, language, tesseractPath, ocrCalls, simpleCalls,
          err, text, iterations, latexCode, secondCode, files>>

-----------------------------------------------------------------------------
(* Runes and rune classes                                                  *)

Digits == {"0","1","2","3","4","5","6","7","8","9"}

LowerLetters == {"a","b","c","d","e","f","g","h","i","j","k","l","m",
                 "n","o","p","q","r","s","t","u","v","w","x","y","z"}

UpperLetters == {"A","B","C","D","E","F","G","H","I","J","K","L","M",
                 "N","O","P","Q","R","S","T","U","V","W","X","Y","Z"}

\* [a-zA-Z]
Letters == LowerLetters \cup UpperLetters

\* \w of Go's regexp: [0-9A-Za-z_]
WordChars == Letters \cup Digits \cup {"_"}

\* \s of Go's regexp: [\t\n\f\r ]
RegexSpace == {" ", "\t", "\n", "\f", "\r"}

\* unicode.IsSpace: '\t' '\n' '\v' '\f' '\r' ' ' U+0085 U+00A0 and category Z
UnicodeSpace == {" ", "\t", "\n", "\f", "\r", "U+000B", "U+0085", "U+00A0",
                 "U+1680", "U+2000", "U+2001", "U+2002", "U+2003", "U+2004",
                 "U+2005", "U+2006", "U+2007", "U+2008", "U+2009", "U+200A",
                 "U+2028", "U+2029", "U+202F", "U+205F", "U+3000"}

\* The runes of category Nd beyond ASCII (Unicode 15.0.0, the tables of
\* the unicode package), one row for each run of ten digits.
NonAsciiDigits == {
  "U+0660", "U+0661", "U+0662", "U+0663", "U+0664", "U+0665", "U+0666", "U+0667", "U+0668", "U+0669",
  "U+06F0", "U+06F1", "U+06F2", "U+06F3", "U+06F4", "U+06F5", "U+06F6", "U+06F7", "U+06F8", "U+06F9",
  "U+07C0", "U+07C1", "U+07C2", "U+07C3", "U+07C4", "U+07C5", "U+07C6", "U+07C7", "U+07C8", "U+07C9",
  "U+0966", "U+0967", "U+0968", "U+0969", "U+096A", "U+096B", "U+096C", "U+096D", "U+096E", "U+096F",
  "U+09E6", "U+09E7", "U+09E8", "U+09E9", "U+09EA", "U+09EB", "U+09EC", "U+09ED", "U+09EE", "U+09EF",
  "U+0A66", "U+0A67", "U+0A68", "U+0A69", "U+0A6A", "U+0A6B", "U+0A6C", "U+0A6D", "U+0A6E", "U+0A6F",
  "U+0AE6", "U+0AE7", "U+0AE8", "U+0AE9", "U+0AEA", "U+0AEB", "U+0AEC", "U+0AED", "U+0AEE", "U+0AEF",
  "U+0B66", "U+0B67", "U+0B68", "U+0B69", "U+0B6A", "U+0B6B", "U+0B6C", "U+0B6D", "U+0B6E", "U+0B6F",
  "U+0BE6", "U+0BE7", "U+0BE8", "U+0BE9", "U+0BEA", "U+0BEB", "U+0BEC", "U+0BED", "U+0BEE", "U+0BEF",
  "U+0C66", "U+0C67", "U+0C68", "U+0C69", "U+0C6A", "U+0C6B", "U+0C6C", "U+0C6D", "U+0C6E", "U+0C6F",
  "U+0CE6", "U+0CE7", "U+0CE8", "U+0CE9", "U+0CEA", "U+0CEB", "U+0CEC", "U+0CED", "U+0CEE", "U+0CEF",
  "U+0D66", "U+0D67", "U+0D68", "U+0D69", "U+0D6A", "U+0D6B", "U+0D6C", "U+0D6D", "U+0D6E", "U+0D6F",
  "U+0DE6", "U+0DE7", "U+0DE8", "U+0DE9", "U+0DEA", "U+0DEB", "U+0DEC", "U+0DED", "U+0DEE", "U+0DEF",
  "U+0E50", "U+0E51", "U+0E52", "U+0E53", "U+0E54", "U+0E55", "U+0E56", "U+0E57", "U+0E58", "U+0E59",
  "U+0ED0", "U+0ED1", "U+0ED2", "U+0ED3", "U+0ED4", "U+0ED5", "U+0ED6", "U+0ED7", "U+0ED8", "U+0ED9",
  "U+0F20", "U+0F21", "U+0F22", "U+0F23", "U+0F24", "U+0F25", "U+0F26", "U+0F27", "U+0F28", "U+0F29",
  "U+1040", "U+1041", "U+1042", "U+1043", "U+1044", "U+1045", "U+1046", "U+1047", "U+1048", "U+1049",
  "U+1090", "U+1091", "U+1092", "U+1093", "U+1094", "U+1095", "U+1096", "U+1097", "U+1098", "U+1099",
  "U+17E0", "U+17E1", "U+17E2", "U+17E3", "U+17E4", "U+17E5", "U+17E6", "U+17E7", "U+17E8", "U+17E9",
  "U+1810", "U+1811", "U+1812", "U+1813", "U+1814", "U+1815", "U+1816", "U+1817", "U+1818", "U+1819",
  "U+1946", "U+1947", "U+1948", "U+1949", "U+194A", "U+194B", "U+194C", "U+194D", "U+194E", "U+194F",
  "U+19D0", "U+19D1", "U+19D2", "U+19D3", "U+19D4", "U+19D5", "U+19D6", "U+19D7", "U+19D8", "U+19D9",
  "U+1A80", "U+1A81", "U+1A82", "U+1A83", "U+1A84", "U+1A85", "U+1A86", "U+1A87", "U+1A88", "U+1A89",
  "U+1A90", "U+1A91", "U+1A92", "U+1A93", "U+1A94", "U+1A95", "U+1A96", "U+1A97", "U+1A98", "U+1A99",
  "U+1B50", "U+1B51", "U+1B52", "U+1B53", "U+1B54", "U+1B55", "U+1B56", "U+1B57", "U+1B58", "U+1B59",
  "U+1BB0", "U+1BB1", "U+1BB2", "U+1BB3", "U+1BB4", "U+1BB5", "U+1BB6", "U+1BB7", "U+1BB8", "U+1BB9",
  "U+1C40", "U+1C41", "U+1C42", "U+1C43", "U+1C44", "U+1C45", "U+1C46", "U+1C47", "U+1C48", "U+1C49",
  "U+1C50", "U+1C51", "U+1C52", "U+1C53", "U+1C54", "U+1C55", "U+1C56", "U+1C57", "U+1C58", "U+1C59",
  "U+A620", "U+A621", "U+A622", "U+A623", "U+A624", "U+A625", "U+A626", "U+A627", "U+A628", "U+A629",
  "U+A8D0", "U+A8D1", "U+A8D2", "U+A8D3", "U+A8D4", "U+A8D5", "U+A8D6", "U+A8D7", "U+A8D8", "U+A8D9",
  "U+A900", "U+A901", "U+A902", "U+A903", "U+A904", "U+A905", "U+A906", "U+A907", "U+A908", "U+A909",
  "U+A9D0", "U+A9D1", "U+A9D2", "U+A9D3", "U+A9D4", "U+A9D5", "U+A9D6", "U+A9D7", "U+A9D8", "U+A9D9",
  "U+A9F0", "U+A9F1", "U+A9F2", "U+A9F3", "U+A9F4", "U+A9F5", "U+A9F6", "U+A9F7", "U+A9F8", "U+A9F9",
  "U+AA50", "U+AA51", "U+AA52", "U+AA53", "U+AA54", "U+AA55", "U+AA56", "U+AA57", "U+AA58", "U+AA59",
  "U+ABF0", "U+ABF1", "U+ABF2", "U+ABF3", "U+ABF4", "U+ABF5", "U+ABF6", "U+ABF7", "U+ABF8", "U+ABF9",
  "U+FF10", "U+FF11", "U+FF12", "U+FF13", "U+FF14", "U+FF15", "U+FF16", "U+FF17", "U+FF18", "U+FF19",
  "U+104A0", "U+104A1", "U+104A2", "U+104A3", "U+104A4", "U+104A5", "U+104A6", "U+104A7", "U+104A8", "U+104A9",
  "U+10D30", "U+10D31", "U+10D32", "U+10D33", "U+10D34", "U+10D35", "U+10D36", "U+10D37", "U+10D38", "U+10D39",
  "U+11066", "U+11067", "U+11068", "U+11069", "U+1106A", "U+1106B", "U+1106C", "U+1106D", "U+1106E", "U+1106F",
  "U+110F0", "U+110F1", "U+110F2", "U+110F3", "U+110F4", "U+110F5", "U+110F6", "U+110F7", "U+110F8", "U+110F9",
  "U+11136", "U+11137", "U+11138", "U+11139", "U+1113A", "U+1113B", "U+1113C", "U+1113D", "U+1113E", "U+1113F",
  "U+111D0", "U+111D1", "U+111D2", "U+111D3", "U+111D4", "U+111D5", "U+111D6", "U+111D7", "U+111D8", "U+111D9",
  "U+112F0", "U+112F1", "U+112F2", "U+112F3", "U+112F4", "U+112F5", "U+112F6", "U+112F7", "U+112F8", "U+112F9",
  "U+11450", "U+11451", "U+11452", "U+11453", "U+11454", "U+11455", "U+11456", "U+11457", "U+11458", "U+11459",
  "U+114D0", "U+114D1", "U+114D2", "U+114D3", "U+114D4", "U+114D5", "U+114D6", "U+114D7", "U+114D8", "U+114D9",
  "U+11650", "U+11651", "U+11652", "U+11653", "U+11654", "U+11655", "U+11656", "U+11657", "U+11658", "U+11659",
  "U+116C0", "U+116C1", "U+116C2", "U+116C3", "U+116C4", "U+116C5", "U+116C6", "U+116C7", "U+116C8", "U+116C9",
  "U+11730", "U+11731", "U+11732", "U+11733", "U+11734", "U+11735", "U+11736", "U+11737", "U+11738", "U+11739",
  "U+118E0", "U+118E1", "U+118E2", "U+118E3", "U+118E4", "U+118E5", "U+118E6", "U+118E7", "U+118E8", "U+118E9",
  "U+11950", "U+11951", "U+11952", "U+11953", "U+11954", "U+11955", "U+11956", "U+11957", "U+11958", "U+11959",
  "U+11C50", "U+11C51", "U+11C52", "U+11C53", "U+11C54", "U+11C55", "U+11C56", "U+11C57", "U+11C58", "U+11C59",
  "U+11D50", "U+11D51", "U+11D52", "U+11D53", "U+11D54", "U+11D55", "U+11D56", "U+11D57", "U+11D58", "U+11D59",
  "U+11DA0", "U+11DA1", "U+11DA2", "U+11DA3", "U+11DA4", "U+11DA5", "U+11DA6", "U+11DA7", "U+11DA8", "U+11DA9",
  "U+11F50", "U+11F51", "U+11F52", "U+11F53", "U+11F54", "U+11F55", "U+11F56", "U+11F57", "U+11F58", "U+11F59",
  "U+16A60", "U+16A61", "U+16A62", "U+16A63", "U+16A64", "U+16A65", "U+16A66", "U+16A67", "U+16A68", "U+16A69",
  "U+16AC0", "U+16AC1", "U+16AC2", "U+16AC3", "U+16AC4", "U+16AC5", "U+16AC6", "U+16AC7", "U+16AC8", "U+16AC9",
  "U+16B50", "U+16B51", "U+16B52", "U+16B53", "U+16B54", "U+16B55", "U+16B56", "U+16B57", "U+16B58", "U+16B59",
  "U+1D7CE", "U+1D7CF", "U+1D7D0", "U+1D7D1", "U+1D7D2", "U+1D7D3", "U+1D7D4", "U+1D7D5", "U+1D7D6", "U+1D7D7",
  "U+1D7D8", "U+1D7D9", "U+1D7DA", "U+1D7DB", "U+1D7DC", "U+1D7DD", "U+1D7DE", "U+1D7DF", "U+1D7E0", "U+1D7E1",
  "U+1D7E2", "U+1D7E3", "U+1D7E4", "U+1D7E5", "U+1D7E6", "U+1D7E7", "U+1D7E8", "U+1D7E9", "U+1D7EA", "U+1D7EB",
  "U+1D7EC", "U+1D7ED", "U+1D7EE", "U+1D7EF", "U+1D7F0", "U+1D7F1", "U+1D7F2", "U+1D7F3", "U+1D7F4", "U+1D7F5",
  "U+1D7F6", "U+1D7F7", "U+1D7F8", "U+1D7F9", "U+1D7FA", "U+1D7FB", "U+1D7FC", "U+1D7FD", "U+1D7FE", "U+1D7FF",
  "U+1E140", "U+1E141", "U+1E142", "U+1E143", "U+1E144", "U+1E145", "U+1E146", "U+1E147", "U+1E148", "U+1E149",
  "U+1E2F0", "U+1E2F1", "U+1E2F2", "U+1E2F3", "U+1E2F4", "U+1E2F5", "U+1E2F6", "U+1E2F7", "U+1E2F8", "U+1E2F9",
  "U+1E4F0", "U+1E4F1", "U+1E4F2", "U+1E4F3", "U+1E4F4", "U+1E4F5", "U+1E4F6", "U+1E4F7", "U+1E4F8", "U+1E4F9",
  "U+1E950", "U+1E951", "U+1E952", "U+1E953", "U+1E954", "U+1E955", "U+1E956", "U+1E957", "U+1E958", "U+1E959",
  "U+1FBF0", "U+1FBF1", "U+1FBF2", "U+1FBF3", "U+1FBF4", "U+1FBF5", "U+1FBF6", "U+1FBF7", "U+1FBF8", "U+1FBF9"}

\* unicode.IsDigit: category Nd
UnicodeDigits == Digits \cup NonAsciiDigits

\* The runes of the string literal in isMathExpression (line 122).
MathSymbols == {"=", "+", "-", "*", "/", "^", "(", ")", "[", "]", "{", "}",
                "<", ">", "|", "U+00B1", "U+00D7", "U+00F7", "U+2202",
                "U+2206", "U+2207", "U+222B", "U+2211", "U+220F", "U+221A",
                "U+221E", "U+2248", "U+2260", "U+2264", "U+2265", "U+03B1",
                "U+03B2", "U+03B3", "U+03B4", "U+03F5", "U+03B6", "U+03B7",
                "U+03B8", "U+03B9", "U+03BA", "U+03BB", "U+03BC", "U+03BD",
                "U+03BE", "U+03C0", "U+03C1", "U+03C3", "U+03C4", "U+03C5",
                "U+03D5", "U+03C7", "U+03C8", "U+03C9"}

-----------------------------------------------------------------------------------------------------------------------------------------------------
(* The strings package                                                     *)

\* the least position in from..to that satisfies M, 0 when none does
FirstFrom(from, to, M(_)) ==
  IF \E j \in from..to : M(j)
  THEN CHOOSE j \in from..to : M(j) /\ \A k \in from..(j - 1) : ~M(k)
  ELSE 0

\* strings.Contains(s, c) for a one-rune c
Contains(s, c) == \E i \in 1..Len(s) : s[i] = c

\* strings.ReplaceAll(s, old, new) for a one-rune old, from position i on
RECURSIVE ReplaceAllFrom(_, _, _, _)
ReplaceAllFrom(s, i, old, new) ==
  LET j == FirstFrom(i, Len(s), LAMBDA k : s[k] = old)
  IN  IF j = 0 THEN SubSeq(s, i, Len(s))
      ELSE SubSeq(s, i, j - 1) \o new \o ReplaceAllFrom(s, j + 1, old, new)

ReplaceAll(s, old, new) == ReplaceAllFrom(s, 1, old, new)

\* strings.TrimSpace: the runes from the first to the last that is no space
TrimSpace(s) ==
  LET keep == {i \in 1..Len(s) : s[i] \notin UnicodeSpace}
  IN  IF keep = {} THEN <<>>
      ELSE SubSeq(s, CHOOSE i \in keep : \A k \in keep : i <= k,
                     CHOOSE i \in keep : \A k \in keep : i >= k)

\* strings.Split(s, "\n") from position i on: the pieces between the line
\* breaks, at least one
RECURSIVE SplitFrom(_, _)
SplitFrom(s, i) ==
  LET j == FirstFrom(i, Len(s), LAMBDA k : s[k] = "\n")
  IN  IF j = 0 THEN <<SubSeq(s, i, Len(s))>>
      ELSE <<SubSeq(s, i, j - 1)>> \o SplitFrom(s, j + 1)

Split(s) == SplitFrom(s, 1)

\* strings.Join(elems, "\n")
RECURSIVE Join(_)
Join(elems) ==
  IF elems = <<>> THEN <<>>
  ELSE IF Len(elems) = 1 THEN elems[1]
  ELSE elems[1] \o <<"\n">> \o Join(Tail(elems))

-----------------------------------------------------------------------------
(* NewLaTeXConverter: the rule tables                                      *)

\* the map specialChars (lines 33-44)
specialChars ==
     ("&"  :> <<"\\","&">>)
  @@ ("%"  :> <<"\\","%">>)
  @@ ("$"  :> <<"\\","$">>)
  @@ ("#"  :> <<"\\","#">>)
  @@ ("_"  :> <<"\\","_">>)
  @@ ("{"  :> <<"\\","{">>)
  @@ ("}"  :> <<"\\","}">>)
  @@ ("~"  :> <<"\\","t","e","x","t","a","s","c","i","i",
                "t","i","l","d","e","{","}">>)
  @@ ("^"  :> <<"\\","t","e","x","t","a","s","c","i","i",
                "c","i","r","c","u","m","{","}">>)
  @@ ("\\" :> <<"\\","t","e","x","t","b","a","c","k","s","l","a","s","h",
                "{","}">>)

SpecialKeys == DOMAIN specialChars

\* the keys of the map mathFunctions (lines 165-175), as runes
FuncRunes ==
  [sin  |-> <<"s","i","n">>,     cos |-> <<"c","o","s">>,
   tan  |-> <<"t","a","n">>,     log |-> <<"l","o","g">>,
   ln   |-> <<"l","n">>,         lim |-> <<"l","i","m">>,
   sum  |-> <<"s","u","m">>,     prod |-> <<"p","r","o","d">>,
   int  |-> <<"i","n","t">>]

\* the map mathFunctions
mathFunctions ==
  [sin  |-> <<"\\","s","i","n">>, cos |-> <<"\\","c","o","s">>,
   tan  |-> <<"\\","t","a","n">>, log |-> <<"\\","l","o","g">>,
   ln   |-> <<"\\","l","n">>,     lim |-> <<"\\","l","i","m">>,
   sum  |-> <<"\\","s","u","m">>, prod |-> <<"\\","p","r","o","d">>,
   int  |-> <<"\\","i","n","t">>]

FuncNames == DOMAIN mathFunctions

-----
(* Regular expressions, matched as Go's regexp package matches them        *)

\* the end of the longest run of runes of class C that starts at i (i-1: none)
RECURSIVE RunEnd(_, _, _)
RunEnd(s, i, C) ==
  IF i <= Len(s) /\ s[i] \in C THEN RunEnd(s, i + 1, C) ELSE i - 1

\* s holds lit at position i
LiteralAt(s, i, lit) ==
  /\ i + Len(lit) - 1 <= Len(s)
  /\ SubSeq(s, i, i + Len(lit) - 1) = lit

\* \b between positions i-1 and i
WordBoundary(s, i) ==
  (i > 1 /\ s[i - 1] \in WordChars) # (i <= Len(s) /\ s[i] \in WordChars)

\* \bname\b matches at i
WordAt(s, i, name) ==
  /\ LiteralAt(s, i, name)
  /\ WordBoundary(s, i)
  /\ WordBoundary(s, i + Len(name))

\* [=+\-*/^()\[\]]
MathPattern1_NoEquals(t) ==
  \E i \in 1..Len(t) : t[i] \in {"+", "-", "*", "/", "^", "(", ")", "[", "]"}

MathPattern1(t) ==
  \E i \in 1..Len(t) :
    t[i] \in {"=", "+", "-", "*", "/", "^", "(", ")", "[", "]"}

\* \d+[+\-*/]\d+
MathPattern2(t) ==
  \E i \in 1..Len(t) :
    /\ t[i] \in Digits
    /\ i + 2 <= Len(t)
    /\ t[i + 1] \in {"+", "-", "*", "/"}
    /\ t[i + 2] \in Digits

\* [a-zA-Z]\s*=\s*\d+
MathPattern3(t) ==
  \E i \in 1..Len(t) :
    /\ t[i] \in Letters
    /\ LET e == RunEnd(t, i + 1, RegexSpace) + 1
           d == RunEnd(t, e + 1, RegexSpace) + 1
       IN  /\ e <= Len(t) /\ t[e] = "="
           /\ d <= Len(t) /\ t[d] \in Digits

\* [a-zA-Z]\([^)]+\)
MathPattern4(t) ==
  \E i \in 1..Len(t) :
    /\ t[i] \in Letters
    /\ i + 3 <= Len(t)
    /\ t[i + 1] = "("
    /\ t[i + 2] # ")"
    /\ \E k \in (i + 3)..Len(t) : t[k] = ")"

\* \\[a-zA-Z]+
MathPattern5(t) ==
  \E i \in 1..Len(t) :
    t[i] = "\\" /\ i + 1 <= Len(t) /\ t[i + 1] \in Letters

\* \$\$
MathPattern6(t) ==
  \E i \in 1..Len(t) : t[i] = "$" /\ i + 1 <= Len(t) /\ t[i + 1] = "$"

\* \b(sin|cos|tan|log|ln|lim|sum|prod|int)\b
MathPattern7(t) ==
  \E i \in 1..Len(t) : \E n \in FuncNames : WordAt(t, i, FuncRunes[n])

\* for _, pattern := range l.mathPatterns { if pattern.MatchString(text) ...
mathPatterns(t) ==
  \/ MathPattern1(t)
  \/ MathPattern2(t)
  \/ MathPattern3(t)
  \/ MathPattern4(t)
  \/ MathPattern5(t)
  \/ MathPattern6(t)
  \/ MathPattern7(t)

\* . of Go's regexp: any rune but the line break
NoLineBreak(t, from, to) == \A k \in from..to : t[k] # "\n"

\* \s*.+$ matches t from position from: some white space, then at least one
\* rune, none of them a line break, up to the end
SpacesThenRest(t, from) ==
  \E m \in from..Len(t) :
    /\ \A k \in from..(m - 1) : t[k] \in RegexSpace
    /\ NoLineBreak(t, m, Len(t))

\* ^[a-zA-Z]\s*=\s*.+$
InlinePattern1(t) ==
  /\ Len(t) >= 1
  /\ t[1] \in Letters
  /\ LET e == RunEnd(t, 2, RegexSpace) + 1
     IN  e <= Len(t) /\ t[e] = "=" /\ SpacesThenRest(t, e + 1)

\* ^.+\^.+\s*=.+$
InlinePattern2(t) ==
  \E c \in 2..Len(t) : \E e \in (c + 2)..(Len(t) - 1) :
    /\ t[c] = "^"
    /\ NoLineBreak(t, 1, c - 1)
    /\ t[e] = "="
    /\ \E m \in (c + 1)..(e - 1) :
         /\ NoLineBreak(t, c + 1, m)
         /\ \A k \in (m + 1)..(e - 1) : t[k] \in RegexSpace
    /\ NoLineBreak(t, e + 1, Len(t))

\* ^[xyz]\s*=\s*\d+$
InlinePattern3(t) ==
  /\ Len(t) >= 1
  /\ t[1] \in {"x", "y", "z"}
  /\ LET e == RunEnd(t, 2, RegexSpace) + 1
         d == RunEnd(t, e + 1, RegexSpace) + 1
     IN  /\ e <= Len(t) /\ t[e] = "="
         /\ d <= Len(t)
         /\ RunEnd(t, d, Digits) = Len(t)

-----------------------------------------------------------------------------------------------------------------------------------------------------
(* LaTeXConverter.escapeSpecialChars (lines 99-105)                        *)

\* line 102 for every key: what each rule makes of the result r
EscapeTable(r) ==
     ("&"  :> ReplaceAll(r, "&",  specialChars["&"]))
  @@ ("%"  :> ReplaceAll(r, "%",  specialChars["%"]))
  @@ ("$"  :> ReplaceAll(r, "$",  specialChars["$"]))
  @@ ("#"  :> ReplaceAll(r, "#",  specialChars["#"]))
  @@ ("_"  :> ReplaceAll(r, "_",  specialChars["_"]))
  @@ ("{"  :> ReplaceAll(r, "{",  specialChars["{"]))
  @@ ("}"  :> ReplaceAll(r, "}",  specialChars["}"]))
  @@ ("~"  :> ReplaceAll(r, "~",  specialChars["~"]))
  @@ ("^"  :> ReplaceAll(r, "^",  specialChars["^"]))
  @@ ("\\" :> ReplaceAll(r, "\\", specialChars["\\"]))

\* One more iteration from each pair <<keys visited, result>> of P: any key
\* not yet visited comes next.
EscapeStep(P) ==
  UNION {UNION {UNION {{<<p[1] \cup {c}, T[c]>> : c \in SpecialKeys \ p[1]} :
                          p \in {q \in P : q[2] = r}} :
                   T \in {EscapeTable(r)}} :
            r \in {p[2] : p \in P}}

\* The loop after k iterations: the pairs <<keys visited, result>> it can be in.
RECURSIVE EscapeLoop(_, _)
EscapeLoop(t, k) ==
  IF k = 0 THEN {<<{}, t>>}
  ELSE UNION {EscapeStep(P) : P \in {EscapeLoop(t, k - 1)}}

\* The results escapeSpecialChars(text) can return.
escapeSpecialChars(t) ==
  {p[2] : p \in EscapeLoop(t, Cardinality(SpecialKeys))}

-----
(* LaTeXConverter.isMathExpression (lines 108-140)                         *)

\* totalChars: the runes that are not white space
TotalChars(t) == Cardinality({i \in 1..Len(t) : t[i] \notin UnicodeSpace})

\* mathCharCount: of those, the math symbols and the digits
MathCharCount(t) ==
  Cardinality({i \in 1..Len(t) :
     /\ t[i] \notin UnicodeSpace
     /\ t[i] \in MathSymbols \cup UnicodeDigits})

\* float64(mathCharCount)/float64(totalChars) > 0.6
MostlyMath(t) ==
  TotalChars(t) > 0 /\ 10 * MathCharCount(t) > 6 * TotalChars(t)

isMathExpression_NoBackslash(t) ==
  \/ MostlyMath(t)
  \/ mathPatterns(t)

isMathExpression(t) ==
  \/ Contains(t, "\\")
  \/ MostlyMath(t)
  \/ mathPatterns(t)

(* LaTeXConverter.isInlineMath (lines 143-158)                             *)
isInlineMath(t) ==
  \/ InlinePattern1(t)
  \/ InlinePattern2(t)
  \/ InlinePattern3(t)

-----------------------------------------------------------------------------------------------------------------------------------------------------
(* LaTeXConverter.processMathExpressions (lines 161-199)                   *)

\* regexp.MustCompile(`\b` + funcName + `\b`).ReplaceAllString(s, latexCmd),
\* from position i on
RECURSIVE ReplaceWordFrom(_, _, _, _)
ReplaceWordFrom(s, i, name, cmd) ==
  LET j == FirstFrom(i, Len(s), LAMBDA k : WordAt(s, k, name))
  IN  IF j = 0 THEN SubSeq(s, i, Len(s))
      ELSE SubSeq(s, i, j - 1) \o cmd
             \o ReplaceWordFrom(s, j + Len(name), name, cmd)

ReplaceWord(s, n) == ReplaceWordFrom(s, 1, FuncRunes[n], mathFunctions[n])

\* lines 178-179 for every function name: what each rule makes of the result r
FuncTable(r) ==
  [sin  |-> ReplaceWord(r, "sin"),  cos |-> ReplaceWord(r, "cos"),
   tan  |-> ReplaceWord(r, "tan"),  log |-> ReplaceWord(r, "log"),
   ln   |-> ReplaceWord(r, "ln"),   lim |-> ReplaceWord(r, "lim"),
   sum  |-> ReplaceWord(r, "sum"),  prod |-> ReplaceWord(r, "prod"),
   int  |-> ReplaceWord(r, "int")]

\* One more iteration from each pair <<names visited, result>> of P: any name
\* not yet visited comes next.
FuncStep(P) ==
  UNION {UNION {UNION {{<<p[1] \cup {n}, T[n]>> : n \in FuncNames \ p[1]} :
                          p \in {q \in P : q[2] = r}} :
                   T \in {FuncTable(r)}} :
            r \in {p[2] : p \in P}}

\* The loop over mathFunctions after k iterations: the pairs
\* <<names visited, result>> it can be in.
RECURSIVE FuncLoop(_, _)
FuncLoop(t, k) ==
  IF k = 0 THEN {<<{}, t>>}
  ELSE UNION {FuncStep(P) : P \in {FuncLoop(t, k - 1)}}

\* the replacement `\frac{$1}{$2}`
FractionSwapped(num, den) ==
  <<"\\","f","r","a","c","{">> \o den \o <<"}","{">> \o num \o <<"}">>

Fraction(num, den) ==
  <<"\\","f","r","a","c","{">> \o num \o <<"}","{">> \o den \o <<"}">>

\* (\d+)/(\d+) matches at i: the digits from i on, "/", a digit
FractionAt(s, i) ==
  LET n == RunEnd(s, i, Digits)
  IN  /\ n >= i
      /\ n + 2 <= Len(s)
      /\ s[n + 1] = "/"
      /\ s[n + 2] \in Digits

\* (\d+)/(\d+) replaced by `\frac{$1}{$2}`, from position i on
RECURSIVE ReplaceFractions(_, _)
ReplaceFractions(s, i) ==
  LET j == FirstFrom(i, Len(s), LAMBDA k : FractionAt(s, k))
      n == RunEnd(s, j, Digits)
      d == RunEnd(s, n + 2, Digits)
  IN  IF j = 0 THEN SubSeq(s, i, Len(s))
      ELSE SubSeq(s, i, j - 1)
             \o Fraction(SubSeq(s, j, n), SubSeq(s, n + 2, d))
             \o ReplaceFractions(s, d + 1)

\* (\w+)\^(\d+) matches at i: the word runes from i on, "^", a digit
ExponentAt(s, i) ==
  LET b == RunEnd(s, i, WordChars)
  IN  /\ b >= i
      /\ b + 2 <= Len(s)
      /\ s[b + 1] = "^"
      /\ s[b + 2] \in Digits

\* (\w+)\^(\d+) replaced by `$1^{$2}`, from position i on
RECURSIVE ReplaceExponents(_, _)
ReplaceExponents(s, i) ==
  LET j == FirstFrom(i, Len(s), LAMBDA k : ExponentAt(s, k))
      b == RunEnd(s, j, WordChars)
      x == RunEnd(s, b + 2, Digits)
  IN  IF j = 0 THEN SubSeq(s, i, Len(s))
      ELSE SubSeq(s, i, j - 1)
             \o SubSeq(s, j, b) \o <<"^","{">> \o SubSeq(s, b + 2, x) \o <<"}">>
             \o ReplaceExponents(s, x + 1)

\* the position of the first ")" at or after i (0: none)
CloseParen(s, i) == FirstFrom(i, Len(s), LAMBDA k : s[k] = ")")

\* sqrt\(([^)]+)\) matches at i: "sqrt(", at least one rune that is no ")",
\* then ")"
SqrtAt(s, i) ==
  /\ LiteralAt(s, i, <<"s","q","r","t","(">>)
  /\ CloseParen(s, i + 5) >= i + 6

\* sqrt\(([^)]+)\) replaced by `\sqrt{$1}`, from position i on
RECURSIVE ReplaceSqrt(_, _)
ReplaceSqrt(s, i) ==
  LET j == FirstFrom(i, Len(s), LAMBDA k : SqrtAt(s, k))
      c == CloseParen(s, j + 5)
  IN  IF j = 0 THEN SubSeq(s, i, Len(s))
      ELSE SubSeq(s, i, j - 1)
             \o <<"\\","s","q","r","t","{">> \o SubSeq(s, j + 5, c - 1)
             \o <<"}">> \o ReplaceSqrt(s, c + 1)

\* the replacement `\int_{$1}^{$2} $3`
Integral(lower, upper, integrand) ==
  <<"\\","i","n","t","_","{">> \o lower \o <<"}","^","{">> \o upper
    \o <<"}"," ">> \o integrand

\* int_(\w+)\^(\w+)\s*(\w+) at i: [lower's end, upper's end, integrand's
\* start, integrand's end], or <<>> when it does not match there.  The upper
\* bound takes the whole word after "^"; when no word follows the white space
\* after it, it gives its last rune back to be the integrand.
IntegralMatch(s, i) ==
  LET a  == RunEnd(s, i + 4, WordChars)
      b  == RunEnd(s, a + 2, WordChars)
      sp == RunEnd(s, b + 1, RegexSpace)
      c  == RunEnd(s, sp + 1, WordChars)
  IN  IF /\ LiteralAt(s, i, <<"i","n","t","_">>)
         /\ a >= i + 4
         /\ a + 2 <= Len(s)
         /\ s[a + 1] = "^"
         /\ b >= a + 2
      THEN IF c >= sp + 1 THEN <<a, b, sp + 1, c>>
           ELSE IF b >= a + 3 THEN <<a, b - 1, b, b>>
           ELSE <<>>
      ELSE <<>>

\* int_(\w+)\^(\w+)\s*(\w+) replaced by `\int_{$1}^{$2} $3`, from position i on
RECURSIVE ReplaceIntegrals(_, _)
ReplaceIntegrals(s, i) ==
  LET j == FirstFrom(i, Len(s), LAMBDA k : IntegralMatch(s, k) # <<>>)
      m == IntegralMatch(s, j)
  IN  IF j = 0 THEN SubSeq(s, i, Len(s))
      ELSE SubSeq(s, i, j - 1)
             \o Integral(SubSeq(s, j + 4, m[1]), SubSeq(s, m[1] + 2, m[2]),
                         SubSeq(s, m[3], m[4]))
             \o ReplaceIntegrals(s, m[4] + 1)

\* lines 182-196: the four rewrites that follow the loop over mathFunctions
RewriteShapes(s) ==
  ReplaceIntegrals(
    ReplaceSqrt(
      ReplaceExponents(
        ReplaceFractions(s, 1), 1), 1), 1)

\* The results processMathExpressions(text) can return.
processMathExpressions(t) ==
  {RewriteShapes(p[2]) : p \in FuncLoop(t, Cardinality(FuncNames))}

-----
(* LaTeXConverter.ConvertToLatex (lines 63-96)                             *)

\* fmt.Sprintf("\\[ %s \\]", processedMath)
DisplayMath(p) == <<"\\", "[", " ">> \o p \o <<" ", "\\", "]">>

\* fmt.Sprintf("\\( %s \\)", processedMath)
InlineMath(p) == <<"\\", "(", " ">> \o p \o <<" ", "\\", ")">>

\* if line == "" { continue }
SkipLine_Never(line) == FALSE

SkipLine(line) == line = <<>>

\* One iteration of the loop on a trimmed, non-empty line: the locals it can
\* end with (line, escapedLine, the branch taken, the line appended).
LineIterations(line) ==
  UNION {
    IF isMathExpression(e)
    THEN {[line |-> line, escapedLine |-> e, kind |-> "DisplayMath",
           emitted |-> DisplayMath(p)] : p \in processMathExpressions(e)}
    ELSE IF isInlineMath(e)
    THEN {[line |-> line, escapedLine |-> e, kind |-> "InlineMath",
           emitted |-> InlineMath(p)] : p \in processMathExpressions(e)}
    ELSE {[line |-> line, escapedLine |-> e, kind |-> "Prose",
           emitted |-> e]}
    : e \in escapeSpecialChars(line)}

\* The loop from line i on: the sequences of emitting iterations it can run.
RECURSIVE LoopRuns(_, _)
LoopRuns(lines, i) ==
  IF i > Len(lines) THEN {<<>>}
  ELSE IF SkipLine(TrimSpace(lines[i])) THEN LoopRuns(lines, i + 1)
  ELSE {<<r>> \o rest : r \in LineIterations(TrimSpace(lines[i])),
                        rest \in LoopRuns(lines, i + 1)}

\* The runs of ConvertToLatex(text); the empty text returns at once.
ConvertRuns(t) == IF t = <<>> THEN {<<>>} ELSE LoopRuns(Split(t), 1)

\* latexLines at the end of a run
LatexLines(run) == [k \in 1..Len(run) |-> run[k].emitted]

\* The strings ConvertToLatex(text) can return.
ConvertToLatex(t) == {Join(LatexLines(run)) : run \in ConvertRuns(t)}

-----------------------------------------------------------------------------
(* The program around the engine                                           *)

\* SimpleTextExtractor.ExtractText returns this text (line 364)
SimpleText ==
  <<"E"," ","="," ","m","c","^","2","\n","\n","U+222B"," ","f","r","o",
    "m"," ","0"," ","t","o"," ","1"," ","x","^","2"," ","d","x"," ",
    "="," ","1","/","3","\n","\n","l","i","m"," ","x","U+2192",
    "U+221E"," ","(","1"," ","+"," ","1","/","x",")","^","x"," ","=",
    " ","e">>

\* CreateLatexPreview's template, before and after latexCode (lines 203-218)
PreviewHead ==
  <<"\\","d","o","c","u","m","e","n","t","c","l","a","s","s","{","a",
    "r","t","i","c","l","e","}","\n","\\","u","s","e","p","a","c","k",
    "a","g","e","{","a","m","s","m","a","t","h","}","\n","\\","u","s",
    "e","p","a","c","k","a","g","e","{","a","m","s","s","y","m","b",
    "}","\n","\\","u","s","e","p","a","c","k","a","g","e","[","u","t",
    "f","8","]","{","i","n","p","u","t","e","n","c","}","\n","\\","u",
    "s","e","p","a","c","k","a","g","e","{","g","r","a","p","h","i",
    "c","x","}","\n","\\","b","e","g","i","n","{","d","o","c","u","m",
    "e","n","t","}","\n","\n","\\","t","i","t","l","e","{","H","a","s",
    "i","l"," ","K","o","n","v","e","r","s","i"," ","O","C","R"," ",
    "k","e"," ","L","a","T","e","X","}","\n","\\","a","u","t","h","o",
    "r","{","G","o"," ","L","a","T","e","X"," ","C","o","n","v","e",
    "r","t","e","r","}","\n","\\","m","a","k","e","t","i","t","l","e",
    "\n","\n","%"," ","H","a","s","i","l"," ","k","o","n","v","e","r",
    "s","i"," ","d","a","r","i"," ","g","a","m","b","a","r","\n">>

PreviewTail ==
  <<"\n","\n","\\","e","n","d","{","d","o","c","u","m","e","n","t","}",
    "\n">>

LatexPreview(code) == PreviewHead \o code \o PreviewTail

\* findTesseract's possiblePaths, in the order they are tried (lines 278-284)
possiblePaths == <<"tesseract", "/usr/bin/tesseract", "/usr/local/bin/tesseract",
                   "/opt/homebrew/bin/tesseract",
                   "C:\\Program Files\\Tesseract-OCR\\tesseract.exe">>

\* findTesseract: the first path exec.LookPath finds, "" when none
RECURSIVE findTesseractFrom(_, _)
findTesseractFrom(installed, i) ==
  IF i > Len(possiblePaths) THEN ""
  ELSE IF possiblePaths[i] \in installed THEN possiblePaths[i]
  ELSE findTesseractFrom(installed, i + 1)

findTesseract(installed) == findTesseractFrom(installed, 1)

\* fileExists: !os.IsNotExist(err) of os.Stat (lines 416-419)
fileExists_Always(stat) == TRUE

fileExists(stat) == stat # "notexist"

NoFiles == [n \in {} |-> <<>>]

WriteFile(fs, name, content) ==
  [n \in (DOMAIN fs) \cup {name} |-> IF n = name THEN content ELSE fs[n]]

-----------------------------------------------------------------------------
(* Bounds and inputs                                                       *)

\* most lines of a multi-line text
MaxLines == 3

\* most digits of a numerator or a denominator
MaxDigits == 2

\* most runes of a bound or an integrand of an integral line
MaxWord == 2

\* most runes of a line over the small alphabet
MaxLen == 3

EngineLines == {
  <<"E"," ","="," ","m","c","^","2">>,
  <<"x","^","2">>,
  <<"a","^","1","2","+","b">>,
  <<"a","&","b">>,
  <<"1","0","0","%">>,
  <<"h","e","l","l","o"," ","w","o","r","l","d">>,
  <<"x"," ","="," ","y">>,
  <<"x"," ","="," ","5">>,
  <<"y","=","x","+","1">>,
  <<"s","i","n"," ","x">>,
  <<"s","q","r","t","(","4",")">>,
  <<"f","(","x",")">>,
  <<"U+222B"," ","x"," ","d","x">>,
  <<"$","$">>,
  <<"3"," ","<"," ","5">>,
  <<"k","2"," ","9">>,
  <<"a","_","b">>,
  <<"\\","a","l","p","h","a">>,
  <<"\\","{">>,
  <<"U+FF13">>,
  <<"1","U+FF12">>,
  <<"U+06F4","U+06F5","U+06F6">>,
  <<"a","U+0966">>,
  <<"n"," ","U+1D7CF","U+00B2">>,
  <<"{","x","}">>,
  <<"~","a">>,
  <<"l","i","m"," ","x">>,
  <<"&">>,
  <<"%">>,
  <<"$">>,
  <<"#">>,
  <<"_">>,
  <<"{">>,
  <<"}">>,
  <<"~">>,
  <<"^">>,
  <<"\\">>}

DigitPool == {"1", "3"}

DigitStrings == UNION {[1..k -> DigitPool] : k \in 1..MaxDigits}

\* the lines <digits>/<digits>
FractionLines == {n \o <<"/">> \o d : n \in DigitStrings, d \in DigitStrings}

\* raw lines of the multi-line texts: empty, blank, and two that are emitted
RawLines == {<<>>, <<" ", "\t">>, <<" ", "a", "b", "\r">>, <<"&">>}

MultiLineTexts ==
  {Join(ls) : ls \in UNION {[1..k -> RawLines] : k \in 0..MaxLines}}

\* every line of at most MaxLen runes over a small alphabet
SmallAlphabet == {"x", "=", "1", "^", "&"}

SmallLines == UNION {[1..k -> SmallAlphabet] : k \in 1..MaxLen}

EngineTexts ==
  EngineLines \cup FractionLines \cup MultiLineTexts \cup SmallLines

WordPool == {"0", "1", "a", "x"}

Words == UNION {[1..k -> WordPool] : k \in 1..MaxWord}

\* the lines int_<word>^<word> <word>
Integrands == {<<"x">>, <<"d","x">>, <<"1">>}

\* the line int_<lower>^<upper> <integrand>
IntegralLine(lo, up, f) ==
  <<"i","n","t","_">> \o lo \o <<"^">> \o up \o <<" ">> \o f

IntegralLines ==
  {IntegralLine(lo, up, f) : lo \in Words, up \in Words, f \in Integrands}

RewriterTexts ==
  IntegralLines \cup {
  <<"i","n","t","_","0","^","1"," ","x">>,
  <<"i","n","t","_","a","^","b"," ","x">>,
  <<"s","i","n","(","x",")"," ","+"," ","c","o","s"," ","x">>,
  <<"s","q","r","t","(","4",")">>,
  <<"1","/","3"," ","+"," ","x","^","2">>,
  <<"i","n","t"," ","x"," ","d","x">>,
  <<"E"," ","="," ","m","c","^","2">>,
  <<"i","n","t","_","a","^","b","c">>}

TwiceTexts == {
  <<"a">>,
  <<"&">>,
  <<"a","^","2">>,
  <<"1","/","3","\n","\n","x"," ","="," ","5">>,
  <<"a","&","b","\n","$">>}

\* what the tesseract command can print
OcrOutputs == {
  <<>>,
  <<" ","x"," ","="," ","5"," ","\n">>,
  <<"a","&","b","\n","\n","1","/","3","\n">>}

ArgLists == {<<>>, <<"--create-sample">>, <<"image.png">>,
             <<"image.png", "ind">>, <<"image.png", "eng">>}

Installations == {{}, {"/usr/bin/tesseract"},
                  {"tesseract", "/usr/bin/tesseract"}}

-----------------------------------------------------------------------------
(* main (lines 422-525)                                                    *)

Idle ==
  /\ language = ""
  /\ tesseractPath = ""
  /\ ocrCalls = 0
  /\ simpleCalls = 0
  /\ err = "nil"
  /\ iterations = <<>>
  /\ latexCode = <<>>
  /\ secondCode = <<>>
  /\ files = NoFiles

Init ==
  /\ pc = "main"
  /\ osArgs \in ArgLists
  /\ imageStat \in {"exists", "notexist", "denied"}
  /\ text = <<>>
  /\ Idle

\* lines 423-447: the usage exit, --create-sample, or imagePath and language
ParseArgs ==
  /\ pc = "main"
  /\ IF Len(osArgs) < 1
     THEN pc' = "exit1" /\ UNCHANGED language
     ELSE IF osArgs[1] = "--create-sample"
     THEN pc' = "createSample" /\ UNCHANGED language
     ELSE /\ pc' = "validate"
          /\ language' = IF Len(osArgs) > 1 THEN osArgs[2] ELSE "eng"
  /\ UNCHANGED <<osArgs, imageStat, tesseractPath, ocrCalls, simpleCalls, err,
                 text, iterations, latexCode, secondCode, files>>

\* lines 433-441 and createSampleImage (368-397): os.Create fails, or
\* png.Encode fails on the created file, or the image is written
CreateSample ==
  /\ pc = "createSample"
  /\ \/ pc' = "fatal" /\ UNCHANGED files
     \/ /\ pc' = "fatal"
        /\ files' = WriteFile(files, "sample_equation.png", <<"partial">>)
     \/ /\ pc' = "done"
        /\ files' = WriteFile(files, "sample_equation.png", <<"png">>)
  /\ UNCHANGED <<osArgs, imageStat, language, tesseractPath, ocrCalls,
                 simpleCalls, err, text, iterations, latexCode, secondCode>>

\* lines 449-452
ValidateFile ==
  /\ pc = "validate"
  /\ pc' = IF fileExists(imageStat) THEN "init" ELSE "fatal"
  /\ UNCHANGED <<osArgs, imageStat, language, tesseractPath, ocrCalls,
                 simpleCalls, err, text, iterations, latexCode, secondCode,
                 files>>

\* lines 457-466: NewOCRProcessor looks tesseract up; PreprocessImage returns
\* the path and no error
Initialize ==
  /\ pc = "init"
  /\ \E installed \in Installations :
       tesseractPath' = findTesseract(installed)
  /\ pc' = "extract"
  /\ UNCHANGED <<osArgs, imageStat, language, ocrCalls, simpleCalls, err,
                 text, iterations, latexCode, secondCode, files>>

\* lines 471-477 with OCRProcessor.ExtractText / ExtractTextWithLanguage:
\* the command runs once and fails, or prints a text that is trimmed
ExtractOCR ==
  /\ pc = "extract"
  /\ tesseractPath # ""
  /\ ocrCalls' = ocrCalls + 1
  /\ \/ err' = "tesseract error" /\ pc' = "fallback" /\ text' = <<>>
     \/ \E out \in OcrOutputs :
          text' = TrimSpace(out) /\ err' = "nil" /\ pc' = "checkErr"
  /\ UNCHANGED <<osArgs, imageStat, language, tesseractPath, simpleCalls,
                 iterations, latexCode, secondCode, files>>

ExtractFallback_Retry ==
  /\ pc = "fallback"
  /\ ocrCalls' = ocrCalls + 1
  /\ text' = SimpleText
  /\ err' = "nil"
  /\ pc' = "checkErr"
  /\ UNCHANGED <<osArgs, imageStat, language, tesseractPath, simpleCalls,
                 iterations, latexCode, secondCode, files>>

\* lines 479-484: the OCR failed, the simple extractor is asked
ExtractFallback ==
  /\ pc = "fallback"
  /\ simpleCalls' = simpleCalls + 1
  /\ text' = SimpleText
  /\ err' = "nil"
  /\ pc' = "checkErr"
  /\ UNCHANGED <<osArgs, imageStat, language, tesseractPath, ocrCalls,
                 iterations, latexCode, secondCode, files>>

\* lines 485-489: tesseract was not found
ExtractSimple ==
  /\ pc = "extract"
  /\ tesseractPath = ""
  /\ simpleCalls' = simpleCalls + 1
  /\ text' = SimpleText
  /\ err' = "nil"
  /\ pc' = "checkErr"
  /\ UNCHANGED <<osArgs, imageStat, language, tesseractPath, ocrCalls,
                 iterations, latexCode, secondCode, files>>

\* lines 491-493
CheckErr ==
  /\ pc = "checkErr"
  /\ pc' = IF err # "nil" THEN "fatal" ELSE "convert"
  /\ UNCHANGED <<osArgs, imageStat, language, tesseractPath, ocrCalls,
                 simpleCalls, err, text, iterations, latexCode, secondCode,
                 files>>

\* line 498, and every call of ConvertToLatex(text)
Convert ==
  /\ pc = "convert"
  /\ \E run \in ConvertRuns(text) :
       /\ iterations' = run
       /\ latexCode' = Join(LatexLines(run))
  /\ pc' = "converted"
  /\ UNCHANGED <<osArgs, imageStat, language, tesseractPath, ocrCalls,
                 simpleCalls, err, text, secondCode, files>>

\* lines 506-510: os.WriteFile cannot open the file, or fails while writing,
\* or writes latexCode
WriteOutput ==
  /\ pc = "converted"
  /\ \/ pc' = "fatal" /\ UNCHANGED files
     \/ /\ pc' = "fatal"
        /\ files' = WriteFile(files, "output.tex", <<"partial">>)
     \/ /\ pc' = "preview"
        /\ files' = WriteFile(files, "output.tex", latexCode)
  /\ UNCHANGED <<osArgs, imageStat, language, tesseractPath, ocrCalls,
                 simpleCalls, err, text, iterations, latexCode, secondCode>>

\* lines 515-519 with CreateLatexPreview
WritePreview ==
  /\ pc = "preview"
  /\ \/ pc' = "fatal" /\ UNCHANGED files
     \/ /\ pc' = "fatal"
        /\ files' = WriteFile(files, "preview.tex", <<"partial">>)
     \/ /\ pc' = "done"
        /\ files' = WriteFile(files, "preview.tex", LatexPreview(latexCode))
  /\ UNCHANGED <<osArgs, imageStat, language, tesseractPath, ocrCalls,
                 simpleCalls, err, text, iterations, latexCode, secondCode>>

Next ==
  \/ ParseArgs
  \/ CreateSample
  \/ ValidateFile
  \/ Initialize
  \/ ExtractOCR
  \/ ExtractFallback
  \/ ExtractSimple
  \/ CheckErr
  \/ Convert
  \/ WriteOutput
  \/ WritePreview

Spec == Init /\ [][Next]_vars

-----------------------------------------------------------------------------
(* The engine alone: ConvertToLatex on any text                            *)

InitEngine ==
  /\ pc = "convert"
  /\ text \in EngineTexts
  /\ osArgs = <<>>
  /\ imageStat = "exists"
  /\ Idle

NextEngine == Convert

SpecEngine == InitEngine /\ [][NextEngine]_vars

(* The engine called twice on the same text                                *)

InitTwice ==
  /\ pc = "convert"
  /\ text \in TwiceTexts
  /\ osArgs = <<>>
  /\ imageStat = "exists"
  /\ Idle

ConvertAgain ==
  /\ pc = "converted"
  /\ \E out \in ConvertToLatex(text) : secondCode' = out
  /\ pc' = "convertedTwice"
  /\ UNCHANGED <<osArgs, imageStat, language, tesseractPath, ocrCalls,
                 simpleCalls, err, text, iterations, latexCode, files>>

NextTwice == Convert \/ ConvertAgain

SpecTwice == InitTwice /\ [][NextTwice]_vars

(* The Math Rewriter alone: processMathExpressions on any line             *)

InitRewriter ==
  /\ pc = "rewrite"
  /\ text \in RewriterTexts
  /\ osArgs = <<>>
  /\ imageStat = "exists"
  /\ Idle

Rewrite ==
  /\ pc = "rewrite"
  /\ \E out \in processMathExpressions(text) : latexCode' = out
  /\ pc' = "rewritten"
  /\ UNCHANGED <<osArgs, imageStat, language, tesseractPath, ocrCalls,
                 simpleCalls, err, text, iterations, secondCode, files>>

NextRewriter == Rewrite

SpecRewriter == InitRewriter /\ [][NextRewriter]_vars

-----------------------------------------------------------------------------
(* Properties                                                              *)

\* the line with every special rune of it replaced once by its replacement
RECURSIVE EscapeOnce(_)
EscapeOnce(line) ==
  IF line = <<>> THEN <<>>
  ELSE (IF Head(line) \in SpecialKeys THEN specialChars[Head(line)]
        ELSE <<Head(line)>>) \o EscapeOnce(Tail(line))

\* sub occurs in s
HasSubSeq(s, sub) == \E i \in 1..(Len(s) + 1) : LiteralAt(s, i, sub)

\* line is prefix, a body, suffix; the body
Body(line) == SubSeq(line, 4, Len(line) - 3)

IsDisplayWrapped(line) ==
  /\ Len(line) >= 6
  /\ SubSeq(line, 1, 3) = <<"\\", "[", " ">>
  /\ SubSeq(line, Len(line) - 2, Len(line)) = <<" ", "\\", "]">>

IsInlineWrapped(line) ==
  /\ Len(line) >= 6
  /\ SubSeq(line, 1, 3) = <<"\\", "(", " ">>
  /\ SubSeq(line, Len(line) - 2, Len(line)) = <<" ", "\\", ")">>

HasSpecial(line) == \E i \in 1..Len(line) : line[i] \in SpecialKeys

IsDigits(s) == s # <<>> /\ \A i \in 1..Len(s) : s[i] \in Digits

\* the lines of a text that are not empty after trimming, trimmed
NonBlankLines(t) ==
  LET trimmed == [k \in 1..Len(Split(t)) |-> TrimSpace(Split(t)[k])]
  IN  SelectSeq(trimmed, LAMBDA l : l # <<>>)

\* the lines of an output string
OutputLines(code) == IF code = <<>> THEN <<>> ELSE Split(code)

\* C1: escapeSpecialChars replaces every special rune of the original line
\* once by its replacement and never escapes a replacement again; a line of
\* one special rune becomes exactly that rune's replacement.
C1_EscapesOriginalOnce ==
  \A k \in 1..Len(iterations) :
    iterations[k].escapedLine = EscapeOnce(iterations[k].line)

\* C2: a line that holds <word runes>^<digits> is emitted wrapped in a math
\* delimiter, and its body holds the base followed by the exponent in braces.
C2_ExponentRewritten ==
  \A k \in 1..Len(iterations) :
    LET r == iterations[k]
    IN  \A i \in 1..Len(r.line) :
          ExponentAt(r.line, i) =>
            LET b == RunEnd(r.line, i, WordChars)
                x == RunEnd(r.line, b + 2, Digits)
            IN  /\ IsDisplayWrapped(r.emitted) \/ IsInlineWrapped(r.emitted)
                /\ HasSubSeq(Body(r.emitted),
                             SubSeq(r.line, i, b) \o <<"^", "{">>
                               \o SubSeq(r.line, b + 2, x) \o <<"}">>)

\* C3: processMathExpressions turns the line int_<lower>^<upper> <integrand>
\* into \int_{<lower>}^{<upper>} <integrand>.
C3_IntegralRewritten ==
  pc = "rewritten" =>
    \A lo \in Words, up \in Words, f \in Integrands :
      text = IntegralLine(lo, up, f) => latexCode = Integral(lo, up, f)

\* C4: two calls of ConvertToLatex on the same text return the same string.
C4_Deterministic ==
  pc = "convertedTwice" => secondCode = latexCode

\* C5: the output holds one line for each input line that is not empty after
\* trimming, in the order of the input, and nothing for the other lines; a
\* text without such a line gives the empty string.
C5_OneLinePerNonBlankLine ==
  pc = "converted" =>
    \A nb \in {NonBlankLines(text)}, out \in {OutputLines(latexCode)} :
      /\ Len(out) = Len(nb)
      /\ Len(iterations) = Len(nb)
      /\ \A k \in 1..Len(nb) :
           /\ iterations[k].line = nb[k]
           /\ out[k] = iterations[k].emitted
      /\ (nb = <<>> => latexCode = <<>>)

\* a text of three lines, the middle one blank, has been converted to two
C5_Witness ==
  /\ pc = "converted"
  /\ Len(Split(text)) = 3
  /\ TrimSpace(Split(text)[2]) = <<>>
  /\ Split(text)[2] # <<>>
  /\ Len(OutputLines(latexCode)) = 2

\* C6: a line <digits>/<digits> is classified DisplayMath and emitted as
\* \[ \frac{<numerator>}{<denominator>} \].
C6_FractionLine ==
  pc = "converted" =>
    \A i \in 2..(Len(text) - 1) :
      (/\ text[i] = "/"
       /\ IsDigits(SubSeq(text, 1, i - 1))
       /\ IsDigits(SubSeq(text, i + 1, Len(text))))
      => /\ Len(iterations) = 1
         /\ iterations[1].kind = "DisplayMath"
         /\ latexCode =
              <<"\\", "[", " ", "\\", "f", "r", "a", "c", "{">>
                \o SubSeq(text, 1, i - 1) \o <<"}", "{">>
                \o SubSeq(text, i + 1, Len(text))
                \o <<"}", " ", "\\", "]">>

\* "1/3" has been converted to "\[ \frac{1}{3} \]"
C6_Witness ==
  /\ pc = "converted"
  /\ text = <<"1", "/", "3">>
  /\ latexCode = <<"\\", "[", " ", "\\", "f", "r", "a", "c", "{", "1", "}",
                   "{", "3", "}", " ", "\\", "]">>

\* C7: a failed run of the located OCR engine is followed by one call of the
\* stand-in extractor and no further run of the engine, and the conversion
\* proceeds on the stand-in's text; no run of the program runs the engine or
\* the stand-in more than once.
C7_OneFallback ==
  [][/\ ocrCalls' <= 1
     /\ simpleCalls' <= 1
     /\ ocrCalls' >= ocrCalls
     /\ (pc' = "fallback" =>
           /\ tesseractPath' # ""
           /\ err' # "nil"
           /\ ocrCalls' = 1
           /\ simpleCalls' = 0)
     /\ (pc = "fallback" =>
           /\ simpleCalls' = simpleCalls + 1
           /\ ocrCalls' = ocrCalls
           /\ err' = "nil"
           /\ text' = SimpleText)
     /\ ((tesseractPath # "" /\ simpleCalls = 1) =>
           /\ text' = SimpleText
           /\ (pc = "checkErr" => pc' = "convert")
           /\ (pc = "convert" =>
                 /\ pc' = "converted"
                 /\ Len(iterations') = Len(NonBlankLines(SimpleText))))]_vars

\* the engine was found and failed, and the stand-in's text has been converted
C7_Witness ==
  /\ pc = "converted"
  /\ tesseractPath # ""
  /\ ocrCalls = 1
  /\ simpleCalls = 1
  /\ text = SimpleText
  /\ Len(iterations) = 3

\* C8: when the image path does not exist the run ends in failure before any
\* text is extracted and before output.tex or preview.tex is written.
C8_MissingImageFailsFast ==
  (/\ Len(osArgs) >= 1
   /\ osArgs[1] # "--create-sample"
   /\ imageStat = "notexist")
  => /\ pc \in {"main", "validate", "fatal"}
     /\ ocrCalls = 0
     /\ simpleCalls = 0
     /\ tesseractPath = ""
     /\ iterations = <<>>
     /\ files = NoFiles

\* the run on a missing image has ended in failure
C8_Witness ==
  /\ pc = "fatal"
  /\ Len(osArgs) >= 1
  /\ osArgs[1] = "image.png"
  /\ imageStat = "notexist"

\* C9: no line is classified InlineMath, and no output line is wrapped in
\* \( ... \): a line that matches an inline pattern is DisplayMath already.
C9_InlineUnreachable ==
  \A k \in 1..Len(iterations) :
    /\ iterations[k].kind # "InlineMath"
    /\ ~IsInlineWrapped(iterations[k].emitted)
    /\ (isInlineMath(iterations[k].escapedLine)
          => /\ iterations[k].kind = "DisplayMath"
             /\ IsDisplayWrapped(iterations[k].emitted))

\* a line that matches an inline pattern has been emitted as DisplayMath
C9_Witness ==
  /\ pc = "converted"
  /\ text = <<"x", " ", "=", " ", "y">>
  /\ Len(iterations) = 1
  /\ isInlineMath(iterations[1].escapedLine)
  /\ iterations[1].kind = "DisplayMath"

\* C10: a line that holds a special rune is emitted as DisplayMath, never as
\* Prose; a line emitted as Prose is its trimmed input line unchanged.
C10_SpecialIsDisplay ==
  \A k \in 1..Len(iterations) :
    LET r == iterations[k]
    IN  /\ HasSpecial(r.line) =>
             /\ r.kind = "DisplayMath"
             /\ IsDisplayWrapped(r.emitted)
        /\ r.kind = "Prose" => r.emitted = r.line

\* a text of a prose line and a line with a special rune has been converted
C10_Witness ==
  /\ pc = "converted"
  /\ Len(iterations) = 2
  /\ iterations[1].kind = "Prose"
  /\ iterations[1].emitted = <<"a", "b">>
  /\ HasSpecial(iterations[2].line)
  /\ iterations[2].kind = "DisplayMath"

====
